---------------------------- MODULE Spec2Model ----------------------------
(***************************************************************************)
(* Two Brush Sliders (Krita docker plugin): the docker's state             *)
(* synchronisation between its two sliders and the host's brush state,     *)
(* its debounced config persistence, its debounced brush-size action       *)
(* handler, and the reading / rewriting of hfade / vfade in the preset     *)
(* XML.  Modelled from src/two_brush_sliders/two_brush_sliders.py.         *)
(***************************************************************************)
EXTENDS Integers, Sequences, FiniteSets, TLC

(***************************************************************************)
(* Python floats (IEEE-754 binary64), as far as the hardness conversion    *)
(* needs them: non-negative finite values.  A float is Zero or a record    *)
(* [e, m]: m is the 53-bit significand, most significant bit first with    *)
(* m[1] = 1, and the value is m * 2^(e - 52).  Every operation rounds to   *)
(* nearest, ties to even, as the hardware does.                            *)
(***************************************************************************)
MantissaBits == 53

Zero == [e |-> 0, m |-> <<>>]

RECURSIVE Pow2(_)
Pow2(n) == IF n = 0 THEN 1 ELSE 2 * Pow2(n - 1)

RECURSIVE Pow10(_)
Pow10(n) == IF n = 0 THEN 1 ELSE 10 * Pow10(n - 1)

RECURSIVE Zeros(_)
Zeros(n) == IF n <= 0 THEN <<>> ELSE <<0>> \o Zeros(n - 1)

\* The value of a (short) bit string, most significant bit first.
RECURSIVE BitsValue(_)
BitsValue(bits) ==
    IF bits = <<>> THEN 0
    ELSE 2 * BitsValue(SubSeq(bits, 1, Len(bits) - 1)) + bits[Len(bits)]

\* The binary digits of a natural number, without leading zeros.
RECURSIVE NatBits(_)
NatBits(n) == IF n = 0 THEN <<>> ELSE NatBits(n \div 2) \o <<n % 2>>

\* bits + 1 (one bit longer when every bit was 1).
RECURSIVE IncBits(_)
IncBits(bits) ==
    IF bits = <<>> THEN <<1>>
    ELSE IF bits[Len(bits)] = 0
         THEN SubSeq(bits, 1, Len(bits) - 1) \o <<1>>
         ELSE IncBits(SubSeq(bits, 1, Len(bits) - 1)) \o <<0>>

\* bits[1..i] * n + carry, for a small multiplier n.
RECURSIVE MulBitsFrom(_, _, _, _)
MulBitsFrom(bits, n, i, carry) ==
    IF i = 0 THEN NatBits(carry)
    ELSE LET acc == bits[i] * n + carry
         IN  IF acc % 2 = 0
             THEN MulBitsFrom(bits, n, i - 1, acc \div 2) \o <<0>>
             ELSE MulBitsFrom(bits, n, i - 1, acc \div 2) \o <<1>>

MulBits(bits, n) == MulBitsFrom(bits, n, Len(bits), 0)

\* Round a bit string whose leading 1 has weight 2^e to a float.
RoundBits(bits, e) ==
    LET L == Len(bits)
    IN  IF L <= MantissaBits
        THEN [e |-> e, m |-> bits \o Zeros(MantissaBits - L)]
        ELSE LET keep   == SubSeq(bits, 1, MantissaBits)
                 guard  == bits[MantissaBits + 1]
                 sticky == \E i \in (MantissaBits + 2)..L : bits[i] = 1
                 up     == guard = 1 /\ (sticky \/ keep[MantissaBits] = 1)
                 inc    == IncBits(keep)
             IN  IF ~up THEN [e |-> e, m |-> keep]
                 ELSE IF Len(inc) > MantissaBits
                      THEN [e |-> e + 1, m |-> SubSeq(inc, 1, MantissaBits)]
                      ELSE [e |-> e, m |-> inc]

\* n quotient bits of num / den (den <= num < 2 * den), then a sticky bit.
RECURSIVE DivBits(_, _, _)
DivBits(num, den, n) ==
    IF n = 0 THEN << IF num # 0 THEN 1 ELSE 0 >>
    ELSE LET bit == IF num >= den THEN 1 ELSE 0
         IN  <<bit>> \o DivBits(2 * (num - bit * den), den, n - 1)

RECURSIVE ShiftUp(_, _, _)
ShiftUp(a, b, j) == IF a >= b THEN j ELSE ShiftUp(2 * a, b, j + 1)

RECURSIVE ShiftDown(_, _, _)
ShiftDown(a, b, k) == IF 2 * b > a THEN k ELSE ShiftDown(a, 2 * b, k + 1)

\* The float a / b for naturals a, b (b > 0): what a / 100.0 computes for
\* an integral a, and what float("0.29") computes for the numeral 29/100.
DivInt(a, b) ==
    IF a = 0 THEN Zero
    ELSE IF a >= b
         THEN LET k == ShiftDown(a, b, 0)
              IN  RoundBits(DivBits(a, b * Pow2(k), MantissaBits + 1), k)
         ELSE LET j == ShiftUp(a, b, 0)
              IN  RoundBits(DivBits(a * Pow2(j), b, MantissaBits + 1), 0 - j)

\* The float d * n for a small natural n (d * 100.0).
MulInt(d, n) ==
    IF d = Zero \/ n = 0 THEN Zero
    ELSE LET p == MulBits(d.m, n)
         IN  RoundBits(p, d.e + (Len(p) - MantissaBits))

\* int(d): truncation towards zero.
Trunc(d) ==
    IF d = Zero \/ d.e < 0 THEN 0
    ELSE BitsValue(SubSeq(d.m, 1, d.e + 1))

One == DivInt(1, 1)

\* d > 1.0
GreaterThanOne(d) ==
    /\ d # Zero
    /\ \/ d.e > 0
       \/ d.e = 0 /\ \E i \in 2..MantissaBits : d.m[i] = 1

\* max(0.0, min(1.0, d)) for a non-negative d
Clamp01(d) == IF GreaterThanOne(d) THEN One ELSE d

(***************************************************************************)
(* Decimal numerals, the text of an hfade / vfade attribute: [num, digits] *)
(* is num / 10^digits written with `digits` fractional digits.             *)
(***************************************************************************)
Numeral(num, digits) == [num |-> num, digits |-> digits]

\* float(text) of a decimal numeral: the nearest float.
FloatOf(s) == DivInt(s.num, Pow10(s.digits))

\* The integer nearest to bits * 2^(e - 52), bits being a multiple of d.m.
NearestInt(bits, e) ==
    LET L == Len(bits)
        s == (MantissaBits - 1) - e          \* fractional bits
    IN  IF s <= 0 THEN BitsValue(bits \o Zeros(0 - s))
        ELSE IF L < s THEN 0
        ELSE BitsValue(SubSeq(bits, 1, L - s)) + bits[L - s + 1]

\* str(d): the shortest numeral that float() reads back as d, with at least
\* one fractional digit ("0.0", "0.5", "0.29", "1.0").
RECURSIVE StrFrom(_, _, _)
StrFrom(d, scaled, digits) ==
    LET s == Numeral(NearestInt(scaled, d.e), digits)
    IN  IF FloatOf(s) = d THEN s
        ELSE StrFrom(d, MulBits(scaled, 10), digits + 1)

StrOf(d) == IF d = Zero THEN Numeral(0, 1) ELSE StrFrom(d, MulBits(d.m, 10), 1)


(***************************************************************************)
(* The preset XML.  A preset is a sequence of <param> elements; the text   *)
(* of a brush_definition param is itself XML: a root element with a type   *)
(* attribute and descendants, listed here in document order with their     *)
(* depth (the root is elems[1], depth 0).  An attribute is absent, a       *)
(* decimal numeral, or text that float() rejects.                          *)
(***************************************************************************)
Absent  == [kind |-> "absent",  num |-> 0, digits |-> 0]
Garbage == [kind |-> "garbage", num |-> 0, digits |-> 0]
Num(num, digits) == [kind |-> "num", num |-> num, digits |-> digits]

Elem(tag, depth, hfade, vfade) ==
    [tag |-> tag, depth |-> depth, hfade |-> hfade, vfade |-> vfade]

EmptyText     == [kind |-> "empty",     type |-> "", elems |-> <<>>]
MalformedText == [kind |-> "malformed", type |-> "", elems |-> <<>>]
BrushDef(type, elems) == [kind |-> "xml", type |-> type, elems |-> elems]

Param(name, text) == [name |-> name, text |-> text]

\* view.currentBrushPreset(): a resource, or None.
NoPreset        == [exists |-> FALSE, params |-> <<>>]
PresetOf(params) == [exists |-> TRUE, params |-> params]

\* tag.endswith('MaskGenerator')
EndsWithMaskGenerator(tag) == tag \in {"MaskGenerator", "{ns}MaskGenerator"}

\* The first of a set of positions, 0 when there is none.
FirstIndex(positions) ==
    IF positions = {} THEN 0
    ELSE CHOOSE i \in positions : \A j \in positions : i <= j

\* _find_mask_generator: a direct child named MaskGenerator, else the first
\* descendant so named, else the first element (the root included) whose tag
\* ends with MaskGenerator; 0 stands for None.
_find_mask_generator(brushdef) ==
    LET elems      == brushdef.elems
        child      == FirstIndex({i \in 1..Len(elems) :
                          elems[i].depth = 1 /\ elems[i].tag = "MaskGenerator"})
        descendant == FirstIndex({i \in 1..Len(elems) :
                          elems[i].depth >= 1 /\ elems[i].tag = "MaskGenerator"})
        suffix     == FirstIndex({i \in 1..Len(elems) :
                          EndsWithMaskGenerator(elems[i].tag)})
    IN  IF child # 0 THEN child
        ELSE IF descendant # 0 THEN descendant
        ELSE suffix

\* The outcome of a block of Python: a value returned, or an exception.
Return(val) == [raised |-> FALSE, none |-> FALSE, val |-> val]
ReturnNone  == [raised |-> FALSE, none |-> TRUE,  val |-> Zero]
Raise       == [raised |-> TRUE,  none |-> TRUE,  val |-> Zero]

\* The loop of _get_brush_hardness over preset_tree.findall('param'), from
\* the i-th param on: a param is passed over (continue), or ends the loop
\* with a return or an exception.
RECURSIVE GetHardnessScan(_, _)
GetHardnessScan(params, i) ==
    LET Continue == GetHardnessScan(params, i + 1)
        \* hfade = brushopt.get('hfade') or brushopt.get('vfade')
        Fade(brushopt) ==
            IF brushopt.hfade # Absent THEN brushopt.hfade ELSE brushopt.vfade
        Read(hfade) ==
            IF hfade = Absent THEN Continue
            ELSE IF hfade = Garbage THEN Raise
            ELSE Return(FloatOf(hfade))
        Find(text, mg) ==
            IF mg = 0 THEN Continue ELSE Read(Fade(text.elems[mg]))
        Parse(text) ==
            IF text.kind = "empty" THEN Continue
            ELSE IF text.kind = "malformed" THEN Raise
            ELSE IF text.type # "auto_brush" THEN Continue
            ELSE Find(text, _find_mask_generator(text))
        Visit(param) ==
            IF param.name # "brush_definition" THEN Continue
            ELSE Parse(param.text)
    IN  IF i > Len(params) THEN ReturnNone ELSE Visit(params[i])

\* The body of the try block of _get_brush_hardness.
GetHardnessTry(preset) ==
    IF ~preset.exists THEN Raise ELSE GetHardnessScan(preset.params, 1)

\* Mutant: no except clause, the exception propagates.
Propagate(outcome) == outcome

\* try: ... except Exception: the exception is swallowed, and what the try
\* block had not yet done stays undone.
Except(outcome) == [outcome EXCEPT !.raised = FALSE]

_get_brush_hardness(has_view, preset) ==
    IF ~has_view THEN ReturnNone ELSE Except(GetHardnessTry(preset))

\* The index of the param the loop of _set_brush_hardness rewrites, from the
\* i-th param on: 0 when the loop ends without an update, -1 when it raises.
RECURSIVE SetHardnessScan(_, _)
SetHardnessScan(params, i) ==
    IF i > Len(params) THEN 0
    ELSE LET param == params[i]
             text  == param.text
         IN  IF param.name # "brush_definition" THEN SetHardnessScan(params, i + 1)
             ELSE IF text.kind = "empty"        THEN SetHardnessScan(params, i + 1)
             ELSE IF text.kind = "malformed"    THEN 0 - 1
             ELSE IF text.type # "auto_brush"   THEN SetHardnessScan(params, i + 1)
             ELSE IF _find_mask_generator(text) = 0
                                                THEN SetHardnessScan(params, i + 1)
             ELSE i

\* brushopt.set('hfade', str(clamped_value)); brushopt.set('vfade', ...);
\* param.text = ET.tostring(brushdef)
RewriteParam(param, value) ==
    LET clamped_value == Clamp01(value)
        Attr(text)    == Num(text.num, text.digits)
        Set(mg, attr) == [param EXCEPT !.text.elems[mg].hfade = attr,
                                       !.text.elems[mg].vfade = attr]
    IN  Set(_find_mask_generator(param.text), Attr(StrOf(clamped_value)))


\* Mutant: the loop has no break and rewrites every later auto brush too.
SetHardnessTryNoBreak(preset, value) ==
    LET Later(i, j) == /\ j >= i
                       /\ preset.params[j].name = "brush_definition"
                       /\ preset.params[j].text.kind = "xml"
                       /\ preset.params[j].text.type = "auto_brush"
                       /\ _find_mask_generator(preset.params[j].text) # 0
        Rewrite(i) ==
            IF i < 0
            THEN [raised |-> TRUE, updated |-> FALSE, params |-> preset.params]
            ELSE IF i = 0
            THEN [raised |-> FALSE, updated |-> FALSE, params |-> preset.params]
            ELSE [raised |-> FALSE, updated |-> TRUE,
                  params |-> [j \in 1..Len(preset.params) |->
                                 IF Later(i, j)
                                 THEN RewriteParam(preset.params[j], value)
                                 ELSE preset.params[j]]]
    IN  Rewrite(IF preset.exists THEN SetHardnessScan(preset.params, 1)
                ELSE 0 - 1)

\* The body of the try block of _set_brush_hardness: whether it raised,
\* whether fromXML was reached, and the params fromXML was given.
SetHardnessTry(preset, value) ==
    LET Rewrite(i) ==
            IF i < 0
            THEN [raised |-> TRUE, updated |-> FALSE, params |-> preset.params]
            ELSE IF i = 0
            THEN [raised |-> FALSE, updated |-> FALSE, params |-> preset.params]
            ELSE [raised |-> FALSE, updated |-> TRUE,
                  params |-> [preset.params EXCEPT
                                 ![i] = RewriteParam(@, value)]]
    IN  Rewrite(IF preset.exists THEN SetHardnessScan(preset.params, 1)
                ELSE 0 - 1)

(***************************************************************************)
(* The docker and the host.                                                *)
(***************************************************************************)
VARIABLES
    has_view,           \* _get_active_view() returns a view
    brush_size,         \* view.brushSize()
    preset,             \* view.currentBrushPreset()
    max_brush_size,     \* self.max_brush_size
    last_brush_size,    \* self.last_brush_size (None is NoValue)
    last_hardness,      \* self.last_hardness (None is NoValue)
    pending,            \* self._pending_config_save
    size_slider,        \* self.size_slider: value, minimum, maximum
    hardness_slider,    \* self.hardness_slider
    save_timers,        \* outstanding QTimer.singleShot(500, _do_save_config)
    validate_timer,     \* outstanding QTimer.singleShot(500, _validate_...)
    discover_timer,     \* outstanding QTimer.singleShot(200, _discover_...)
    actions_connected,  \* the size actions' triggered signals are connected
    action_timer,       \* self._action_debounce_timer
    config_file,        \* two_brush_sliders_config.json
    uncaught,           \* an exception escaped a handler
    op,                 \* the handler that ran last
    fx                  \* what the handler that ran last called

vars == << has_view, brush_size, preset, max_brush_size, last_brush_size,
           last_hardness, pending, size_slider, hardness_slider, save_timers,
           validate_timer, discover_timer, actions_connected, action_timer,
           config_file, uncaught, op, fx >>

DefaultMax == 1000
FloorMax   == 100
CeilingMax == 10000
MinSize    == 1
MaxHardness == 100

NoValue == 0 - 1

Min(a, b) == IF a < b THEN a ELSE b
Max(a, b) == IF a > b THEN a ELSE b

\* The docker and host state as one record, for the handlers to transform.
Cur ==
    [ has_view |-> has_view, brush_size |-> brush_size, preset |-> preset,
      max_brush_size |-> max_brush_size, last_brush_size |-> last_brush_size,
      last_hardness |-> last_hardness, pending |-> pending,
      size_slider |-> size_slider, hardness_slider |-> hardness_slider,
      save_timers |-> save_timers, validate_timer |-> validate_timer,
      discover_timer |-> discover_timer,
      actions_connected |-> actions_connected, action_timer |-> action_timer,
      config_file |-> config_file, uncaught |-> uncaught, op |-> op, fx |-> fx ]

\* The state after a handler: every variable takes its field of s.
Commit(s) ==
    \E t \in {s} :
        /\ has_view' = t.has_view
        /\ brush_size' = t.brush_size
        /\ preset' = t.preset
        /\ max_brush_size' = t.max_brush_size
        /\ last_brush_size' = t.last_brush_size
        /\ last_hardness' = t.last_hardness
        /\ pending' = t.pending
        /\ size_slider' = t.size_slider
        /\ hardness_slider' = t.hardness_slider
        /\ save_timers' = t.save_timers
        /\ validate_timer' = t.validate_timer
        /\ discover_timer' = t.discover_timer
        /\ actions_connected' = t.actions_connected
        /\ action_timer' = t.action_timer
        /\ config_file' = t.config_file
        /\ uncaught' = t.uncaught
        /\ op' = t.op
        /\ fx' = t.fx

\* What a handler called: view.setBrushSize, preset.fromXML, a completed write
\* of the config file, a write that failed with IOError, save_config, a
\* QTimer.singleShot for _do_save_config, update_from_current_brush and
\* _update_size_from_action.
NoFx == [ setBrushSize |-> 0, fromXML |-> 0, writes |-> 0, write_errors |-> 0,
          save_calls |-> 0, scheduled |-> 0, update_runs |-> 0,
          size_from_action |-> 0 ]

\* A handler starts: nothing called yet.
Enter(s, name) == [s EXCEPT !.op = name, !.fx = NoFx]

(***************************************************************************)
(* Config persistence.                                                     *)
(***************************************************************************)
NoFile      == [kind |-> "absent",  max |-> 0]
CorruptFile == [kind |-> "corrupt", max |-> 0]
JsonFile(n) == [kind |-> "json",    max |-> n]

\* load_config: the max_brush_size it leaves.
load_config(file) ==
    IF file.kind = "json"
    THEN Max(FloorMax, Min(CeilingMax, file.max))
    ELSE DefaultMax

\* Mutant: no _pending_config_save check, every call schedules a write.
save_config_always_schedules(s) ==
    [s EXCEPT !.pending = TRUE, !.save_timers = @ + 1,
              !.fx.save_calls = @ + 1, !.fx.scheduled = @ + 1]

save_config(s) ==
    IF ~s.pending
    THEN [s EXCEPT !.pending = TRUE, !.save_timers = @ + 1,
                   !.fx.save_calls = @ + 1, !.fx.scheduled = @ + 1]
    ELSE [s EXCEPT !.fx.save_calls = @ + 1]

\* _do_save_config; io_ok is whether mkdir / open / dump succeed.
_do_save_config(s, io_ok) ==
    IF io_ok
    THEN [s EXCEPT !.pending = FALSE,
                   !.config_file = JsonFile(s.max_brush_size),
                   !.fx.writes = @ + 1]
    ELSE [s EXCEPT !.pending = FALSE, !.fx.write_errors = @ + 1]

(***************************************************************************)
(* The sliders (QDoubleSpinBox): setValue and setMaximum keep the value in *)
(* range and emit valueChanged, unless signals are blocked, when the value *)
(* changed; the connected slot runs inside the call.                       *)
(***************************************************************************)
Slider(value, minimum, maximum) ==
    [value |-> value, minimum |-> minimum, maximum |-> maximum]

QSetValue(sl, v) == [sl EXCEPT !.value = Max(sl.minimum, Min(sl.maximum, v))]

QSetMaximum(sl, m) ==
    [sl EXCEPT !.maximum = m,
               !.minimum = Min(sl.minimum, m),
               !.value = Max(Min(sl.minimum, m), Min(m, sl.value))]

\* Mutant: dragging the slider to its end doubles the range.
on_size_slider_changed_soft_max(s, value) ==
    LET grown == Min(CeilingMax, 2 * s.max_brush_size)
        s1 == IF value = s.size_slider.maximum
              THEN [s EXCEPT !.max_brush_size = grown,
                             !.size_slider.maximum = grown]
              ELSE s
    IN  IF s1.has_view
        THEN [s1 EXCEPT !.brush_size = value,
                        !.last_brush_size = value,
                        !.fx.setBrushSize = @ + 1]
        ELSE s1

on_size_slider_changed(s, value) ==
    IF s.has_view
    THEN [s EXCEPT !.brush_size = value,
                   !.last_brush_size = value,
                   !.fx.setBrushSize = @ + 1]
    ELSE s

size_slider_emit(s, old, blocked) ==
    IF s.size_slider.value # old.value /\ ~blocked
    THEN on_size_slider_changed(s, s.size_slider.value)
    ELSE s

size_slider_setValue(s, v, blocked) ==
    size_slider_emit([s EXCEPT !.size_slider = QSetValue(@, v)],
                     s.size_slider, blocked)

size_slider_setMaximum(s, m) ==
    size_slider_emit([s EXCEPT !.size_slider = QSetMaximum(@, m)],
                     s.size_slider, FALSE)

_set_brush_hardness(s, value) ==
    LET After(out) ==
            IF out.raised THEN [s EXCEPT !.uncaught = TRUE]
            ELSE IF out.updated
            THEN [s EXCEPT !.preset.params = out.params,
                           !.fx.fromXML = @ + 1]
            ELSE s
    IN  IF ~s.has_view THEN s
        ELSE After(Except(SetHardnessTry(s.preset, value)))

on_hardness_slider_changed(s, value) ==
    LET internal_value == DivInt(value, MaxHardness)
        After(s1) == IF s1.uncaught THEN s1
                     ELSE [s1 EXCEPT !.last_hardness = value]
    IN  After(_set_brush_hardness(s, internal_value))

hardness_slider_emit(s, old, blocked) ==
    IF s.hardness_slider.value # old.value /\ ~blocked
    THEN on_hardness_slider_changed(s, s.hardness_slider.value)
    ELSE s

hardness_slider_setValue(s, v, blocked) ==
    hardness_slider_emit([s EXCEPT !.hardness_slider = QSetValue(@, v)],
                         s.hardness_slider, blocked)

(***************************************************************************)
(* Synchronisation from the brush.                                         *)
(***************************************************************************)
\* Mutant: setValue without blockSignals.
_update_size_slider_unblocked(s, size) ==
    LET new_max == Min(CeilingMax, Max(FloorMax, size))
        Expanded ==
            IF size > s.max_brush_size /\ new_max # s.max_brush_size
            THEN save_config(
                     size_slider_setMaximum(
                         [s EXCEPT !.max_brush_size = new_max], new_max))
            ELSE s
        Show(s1, clamped_size) ==
            IF s1.last_brush_size # clamped_size
            THEN size_slider_setValue(
                     [s1 EXCEPT !.last_brush_size = clamped_size],
                     clamped_size, FALSE)
            ELSE s1
        Clamp(s1) == Show(s1, Max(MinSize, Min(s1.max_brush_size, size)))
    IN  Clamp(Expanded)

\* Mutant: the expansion is not saved.
_update_size_slider_unsaved(s, size) ==
    LET new_max == Min(CeilingMax, Max(FloorMax, size))
        Expanded ==
            IF size > s.max_brush_size /\ new_max # s.max_brush_size
            THEN size_slider_setMaximum(
                     [s EXCEPT !.max_brush_size = new_max], new_max)
            ELSE s
        Show(s1, clamped_size) ==
            IF s1.last_brush_size # clamped_size
            THEN size_slider_setValue(
                     [s1 EXCEPT !.last_brush_size = clamped_size],
                     clamped_size, TRUE)
            ELSE s1
        Clamp(s1) == Show(s1, Max(MinSize, Min(s1.max_brush_size, size)))
    IN  Clamp(Expanded)

_update_size_slider(s, size) ==
    LET new_max == Min(CeilingMax, Max(FloorMax, size))
        Expanded ==
            IF size > s.max_brush_size /\ new_max # s.max_brush_size
            THEN save_config(
                     size_slider_setMaximum(
                         [s EXCEPT !.max_brush_size = new_max], new_max))
            ELSE s
        Show(s1, clamped_size) ==
            IF s1.last_brush_size # clamped_size
            THEN size_slider_setValue(
                     [s1 EXCEPT !.last_brush_size = clamped_size],
                     clamped_size, TRUE)
            ELSE s1
        Clamp(s1) == Show(s1, Max(MinSize, Min(s1.max_brush_size, size)))
    IN  Clamp(Expanded)

_update_hardness_slider(s, hardness_value) ==
    LET Show(display_value) ==
            IF s.last_hardness # display_value
            THEN hardness_slider_setValue(
                     [s EXCEPT !.last_hardness = display_value],
                     display_value, TRUE)
            ELSE s
    IN  Show(Trunc(MulInt(hardness_value, MaxHardness)))

update_from_current_brush(s0) ==
    LET Hardness(s1, hardness_value) ==
            IF hardness_value.raised THEN [s1 EXCEPT !.uncaught = TRUE]
            ELSE IF ~hardness_value.none
            THEN _update_hardness_slider(s1, hardness_value.val)
            ELSE s1
        Size(s1) == Hardness(s1, _get_brush_hardness(s1.has_view, s1.preset))
        Update(s) == IF ~s.has_view THEN s
                     ELSE Size(_update_size_slider(s, s.brush_size))
    IN  Update([s0 EXCEPT !.fx.update_runs = @ + 1])

_update_size_from_action(s) ==
    LET s1 == [s EXCEPT !.fx.size_from_action = @ + 1]
    IN  IF s1.has_view THEN _update_size_slider(s1, s1.brush_size) ELSE s1

_validate_max_brush_size(s) ==
    IF ~s.has_view THEN s
    ELSE LET current_size == s.brush_size
             new_max == Min(CeilingMax, Max(DefaultMax, current_size))
         IN  IF current_size <= DefaultMax /\ s.max_brush_size > DefaultMax
             THEN save_config(
                      size_slider_setMaximum(
                          [s EXCEPT !.max_brush_size = DefaultMax], DefaultMax))
             ELSE IF current_size > s.max_brush_size
             THEN save_config(
                      size_slider_setMaximum(
                          [s EXCEPT !.max_brush_size = new_max], new_max))
             ELSE s

\* self._action_debounce_timer: a single-shot QTimer; stop() cancels its
\* pending timeout, start() on a running timer restarts it.
NoTimer == [exists |-> FALSE, active |-> 0]

QTimerStop(t)  == [t EXCEPT !.active = 0]
QTimerStart(t) == [t EXCEPT !.active = 1]

\* Mutant: every trigger starts one more timeout and cancels none.
_on_brush_size_action_triggered_no_cancel(s) ==
    [s EXCEPT !.action_timer.exists = TRUE, !.action_timer.active = @ + 1]

_on_brush_size_action_triggered(s) ==
    LET t1 == IF s.action_timer.exists /\ s.action_timer.active > 0
              THEN QTimerStop(s.action_timer) ELSE s.action_timer
        t2 == IF ~t1.exists THEN [t1 EXCEPT !.exists = TRUE] ELSE t1
    IN  [s EXCEPT !.action_timer = QTimerStart(t2)]


(***************************************************************************)
(* Inputs: brush sizes, config files and presets the host can present.     *)
(***************************************************************************)
BrushSizes == {1, 700, 1500, 10000, 12000}
FairSizes  == {700, 1500, 4000, 12000}

ConfigFiles == {NoFile, CorruptFile, JsonFile(50), JsonFile(5000), JsonFile(20000)}

Root(tag) == Elem(tag, 0, Absent, Absent)
MaskGen(depth, hfade, vfade) == Elem("MaskGenerator", depth, hfade, vfade)
AutoBrush(elems) ==
    Param("brush_definition", BrushDef("auto_brush", <<Root("Brush")>> \o elems))
OtherParam == Param("EraserMode", EmptyText)

\* an auto brush, hfade = vfade = 0.5
PlainPreset == PresetOf(<< AutoBrush(<<MaskGen(1, Num(5, 1), Num(5, 1))>>) >>)
\* the mask generator nested, after another param; only hfade, "1"
NestedPreset ==
    PresetOf(<< OtherParam,
                AutoBrush(<< Elem("Group", 1, Absent, Absent),
                             MaskGen(2, Num(1, 0), Absent) >>) >>)
\* a nested mask generator precedes the direct child in document order
NestedFirstPreset ==
    PresetOf(<< AutoBrush(<< Elem("Group", 1, Absent, Absent),
                             MaskGen(2, Num(2, 1), Num(2, 1)),
                             MaskGen(1, Num(9, 1), Num(9, 1)) >>) >>)
\* a namespaced tag, found by the suffix search only; only vfade, "0.25"
SuffixPreset ==
    PresetOf(<< AutoBrush(<< Elem("{ns}MaskGenerator", 1, Absent, Num(25, 2)) >>) >>)
\* a predefined (bitmap) brush tip
BitmapPreset ==
    PresetOf(<< Param("brush_definition",
                      BrushDef("png_brush",
                               <<Root("Brush"), MaskGen(1, Num(5, 1), Num(5, 1))>>)) >>)
\* an auto brush without a mask generator, and an empty brush definition
NoMaskPreset ==
    PresetOf(<< Param("brush_definition", EmptyText),
                AutoBrush(<< Elem("Group", 1, Num(5, 1), Num(5, 1)) >>) >>)
\* the first mask generator has neither attribute, the second has both
BareFirstPreset ==
    PresetOf(<< AutoBrush(<<MaskGen(1, Absent, Absent)>>),
                AutoBrush(<<MaskGen(1, Num(75, 2), Num(75, 2))>>) >>)
\* two auto brushes with a mask generator
TwoBrushPreset ==
    PresetOf(<< AutoBrush(<<MaskGen(1, Num(333, 3), Num(333, 3))>>),
                OtherParam,
                AutoBrush(<<MaskGen(1, Num(8, 1), Num(8, 1))>>) >>)
\* hfade is not a number
GarbagePreset == PresetOf(<< AutoBrush(<<MaskGen(1, Garbage, Num(5, 1))>>) >>)
\* a brush definition that is not XML, before an auto brush
MalformedFirstPreset ==
    PresetOf(<< Param("brush_definition", MalformedText),
                AutoBrush(<<MaskGen(1, Num(5, 1), Num(5, 1))>>) >>)
\* a brush definition that is not XML, after an auto brush
MalformedLastPreset ==
    PresetOf(<< AutoBrush(<<MaskGen(1, Num(5, 1), Num(5, 1))>>),
                Param("brush_definition", MalformedText) >>)

Presets ==
    { PlainPreset, NestedPreset, NestedFirstPreset, SuffixPreset, BitmapPreset,
      NoMaskPreset, BareFirstPreset, TwoBrushPreset, GarbagePreset,
      MalformedFirstPreset, MalformedLastPreset, NoPreset }

HardnessValues  == 0..MaxHardness
HardnessSamples == {0, 29, MaxHardness}

\* Presets whose first brush definition is an auto brush with a mask generator.
AutoPresets == {PlainPreset, NestedPreset}

(***************************************************************************)
(* Construction: __init__ (load_config, the sliders, setup_signals,        *)
(* update_from_current_brush).                                             *)
(***************************************************************************)
Constructed(file, view, size, pre) ==
    LET loaded == load_config(file)
    IN  update_from_current_brush(
            [ has_view |-> view, brush_size |-> size, preset |-> pre,
              max_brush_size |-> loaded,
              last_brush_size |-> NoValue, last_hardness |-> NoValue,
              pending |-> FALSE,
              size_slider |-> Slider(MinSize, MinSize, loaded),
              hardness_slider |-> Slider(0, 0, MaxHardness),
              save_timers |-> 0, validate_timer |-> 1, discover_timer |-> 1,
              actions_connected |-> FALSE, action_timer |-> NoTimer,
              config_file |-> file, uncaught |-> FALSE,
              op |-> "__init__", fx |-> NoFx ])

InitOver(files, sizes, presets) ==
    \E file \in files, view \in BOOLEAN, size \in sizes, pre \in presets :
        \E s \in {Constructed(file, view, size, pre)} :
            /\ has_view = s.has_view
            /\ brush_size = s.brush_size
            /\ preset = s.preset
            /\ max_brush_size = s.max_brush_size
            /\ last_brush_size = s.last_brush_size
            /\ last_hardness = s.last_hardness
            /\ pending = s.pending
            /\ size_slider = s.size_slider
            /\ hardness_slider = s.hardness_slider
            /\ save_timers = s.save_timers
            /\ validate_timer = s.validate_timer
            /\ discover_timer = s.discover_timer
            /\ actions_connected = s.actions_connected
            /\ action_timer = s.action_timer
            /\ config_file = s.config_file
            /\ uncaught = s.uncaught
            /\ op = s.op
            /\ fx = s.fx

(***************************************************************************)
(* The host: views come and go, the brush size and the preset change.      *)
(***************************************************************************)
HostViewOpens ==
    /\ ~has_view
    /\ Commit([Enter(Cur, "host") EXCEPT !.has_view = TRUE])

HostViewCloses ==
    /\ has_view
    /\ Commit([Enter(Cur, "host") EXCEPT !.has_view = FALSE])

HostBrushSizeChanges(sizes) ==
    \E size \in sizes :
        /\ has_view
        /\ size # brush_size
        /\ Commit([Enter(Cur, "host") EXCEPT !.brush_size = size])

HostPresetChanges(presets) ==
    \E pre \in presets :
        /\ has_view
        /\ pre # preset
        /\ Commit([Enter(Cur, "host") EXCEPT !.preset = pre])

(***************************************************************************)
(* The host's callbacks into the docker.                                   *)
(***************************************************************************)
canvasChanged ==
    \E canvas \in BOOLEAN :
        /\ Commit(IF canvas
                  THEN update_from_current_brush(Enter(Cur, "canvasChanged"))
                  ELSE Enter(Cur, "canvasChanged"))

_on_view_changed ==
    /\ Commit(update_from_current_brush(Enter(Cur, "_on_view_changed")))

_on_resource_changed ==
    \E resource_type \in {"preset", "brushpreset", "pattern"} :
        /\ Commit(IF resource_type \in {"preset", "brushpreset"}
                  THEN update_from_current_brush(
                           Enter(Cur, "_on_resource_changed"))
                  ELSE Enter(Cur, "_on_resource_changed"))

(***************************************************************************)
(* The user drags a slider: the value changes and valueChanged is emitted. *)
(***************************************************************************)
UserSetsSize(sizes) ==
    \E v \in sizes :
        /\ v >= size_slider.minimum
        /\ v <= size_slider.maximum
        /\ v # size_slider.value
        /\ Commit(size_slider_setValue(Enter(Cur, "on_size_slider_changed"),
                                       v, FALSE))

UserSetsHardness(values) ==
    \E v \in values :
        /\ v # hardness_slider.value
        /\ Commit(hardness_slider_setValue(
                      Enter(Cur, "on_hardness_slider_changed"), v, FALSE))

(***************************************************************************)
(* Timers.                                                                 *)
(***************************************************************************)
ValidateTimerFires ==
    /\ validate_timer > 0
    /\ Commit(_validate_max_brush_size(
                  [Enter(Cur, "_validate_max_brush_size")
                       EXCEPT !.validate_timer = @ - 1]))

SaveTimerFires ==
    /\ save_timers > 0
    /\ Commit(_do_save_config(
                  [Enter(Cur, "_do_save_config") EXCEPT !.save_timers = @ - 1],
                  TRUE))

SaveTimerFiresIOError ==
    /\ save_timers > 0
    /\ Commit(_do_save_config(
                  [Enter(Cur, "_do_save_config") EXCEPT !.save_timers = @ - 1],
                  FALSE))

\* _discover_brush_size_actions: the host has the two actions, or not.
DiscoverTimerFires ==
    \E found \in BOOLEAN :
        /\ discover_timer > 0
        /\ Commit([Enter(Cur, "_discover_brush_size_actions")
                       EXCEPT !.discover_timer = @ - 1,
                              !.actions_connected = found])

ActionTriggered ==
    /\ actions_connected
    /\ Commit(_on_brush_size_action_triggered(
                  Enter(Cur, "_on_brush_size_action_triggered")))

ActionTimerFires ==
    /\ action_timer.active > 0
    /\ Commit(_update_size_from_action(
                  [Enter(Cur, "_update_size_from_action")
                       EXCEPT !.action_timer.active = @ - 1]))


(***************************************************************************)
(* Specifications.                                                         *)
(***************************************************************************)
\* Brush size, config and save debounce; the preset stays the plain auto
\* brush and the size actions are not triggered.
InitSize == InitOver(ConfigFiles, BrushSizes, {PlainPreset})

NextSize ==
    \/ HostViewOpens
    \/ HostViewCloses
    \/ HostBrushSizeChanges(BrushSizes)
    \/ canvasChanged
    \/ _on_view_changed
    \/ _on_resource_changed
    \/ UserSetsSize(BrushSizes)
    \/ ValidateTimerFires
    \/ SaveTimerFires
    \/ SaveTimerFiresIOError

SpecSize == InitSize /\ [][NextSize]_vars

\* The same without I/O errors, the 500 ms save timer firing fairly.
NextSizeNoIOError ==
    \/ HostViewOpens
    \/ HostViewCloses
    \/ HostBrushSizeChanges(FairSizes)
    \/ canvasChanged
    \/ _on_view_changed
    \/ UserSetsSize(FairSizes)
    \/ ValidateTimerFires
    \/ SaveTimerFires

FairSize ==
    /\ InitOver({NoFile, JsonFile(5000)}, FairSizes, {PlainPreset})
    /\ [][NextSizeNoIOError]_vars
    /\ WF_vars(SaveTimerFires)

\* The brush-size actions and their debounce timer, firing fairly.
NextAction ==
    \/ HostViewOpens
    \/ HostViewCloses
    \/ HostBrushSizeChanges(FairSizes)
    \/ DiscoverTimerFires
    \/ ActionTriggered
    \/ ActionTimerFires
    \/ SaveTimerFires

FairAction ==
    /\ InitOver({NoFile}, FairSizes, {PlainPreset})
    /\ [][NextAction]_vars
    /\ WF_vars(ActionTimerFires)


\* Hardness: every preset, a few slider values; brush size and config fixed.
NextHard ==
    \/ HostViewOpens
    \/ HostViewCloses
    \/ HostPresetChanges(Presets)
    \/ canvasChanged
    \/ _on_view_changed
    \/ _on_resource_changed
    \/ UserSetsHardness(HardnessSamples)

SpecHard ==
    /\ InitOver({NoFile}, {700}, Presets)
    /\ [][NextHard]_vars

\* Hardness round trip: every slider value, on auto brushes.
NextRoundTrip ==
    \/ _on_view_changed
    \/ _on_resource_changed
    \/ UserSetsHardness(HardnessValues)

SpecRoundTrip ==
    /\ InitOver({NoFile}, {700}, AutoPresets)
    /\ [][NextRoundTrip]_vars

\* Everything together, over a few sizes, presets and hardness values.
JointSizes   == {700, 12000}
JointPresets == {PlainPreset, BitmapPreset}

Init == InitOver({NoFile}, JointSizes, JointPresets)

Next ==
    \/ HostViewOpens
    \/ HostViewCloses
    \/ HostBrushSizeChanges(JointSizes)
    \/ HostPresetChanges(JointPresets)
    \/ canvasChanged
    \/ _on_view_changed
    \/ _on_resource_changed
    \/ UserSetsSize(JointSizes)
    \/ UserSetsHardness({29})
    \/ ValidateTimerFires
    \/ SaveTimerFires
    \/ SaveTimerFiresIOError
    \/ DiscoverTimerFires
    \/ ActionTriggered
    \/ ActionTimerFires

Spec == Init /\ [][Next]_vars

(***************************************************************************)
(* Claims.                                                                 *)
(***************************************************************************)
\* update_from_current_brush ran in the handler that ran last, with a view.
UpdatedFromBrush == fx.update_runs > 0 /\ has_view

\* C1: whenever update_from_current_brush completes with an active view
\* whose brush size s is an integer with 1 <= s <= 10000, the size slider's
\* value equals s and its maximum is at least s, whatever preceded it.
C1_SizeSliderMirrorsBrush ==
    (UpdatedFromBrush /\ brush_size \in MinSize..CeilingMax)
        => /\ size_slider.value = brush_size
           /\ size_slider.maximum >= brush_size

\* C5 as stated: at most one deferred _do_save_config is outstanding, it is
\* outstanding exactly when _pending_config_save is true, and each pending
\* period ends in exactly one write to the config file.
C5_SaveDebounced ==
    /\ save_timers = (IF pending THEN 1 ELSE 0)
    /\ (op = "_do_save_config") => (fx.writes = 1)
    /\ (op # "_do_save_config") => (fx.writes = 0)

\* C5 amended: at most one deferred _do_save_config is outstanding, exactly
\* when _pending_config_save is true; a save_config call made while one is
\* pending schedules nothing; a pending period ends only by a run of
\* _do_save_config, which writes the config file exactly once unless the
\* write fails with an IOError, and nothing else writes the file.
C5_SaveDebouncedUnlessIOError ==
    /\ [](save_timers = (IF pending THEN 1 ELSE 0))
    /\ []((op = "_do_save_config") => (fx.writes + fx.write_errors = 1))
    /\ []((op # "_do_save_config") => (fx.writes = 0 /\ fx.write_errors = 0))
    /\ [][(pending /\ fx'.save_calls > 0 /\ op' # "_do_save_config")
             => (fx'.scheduled = 0 /\ save_timers' = save_timers)]_vars
    /\ [][(pending /\ ~pending') => op' = "_do_save_config"]_vars
    /\ [][config_file' # config_file
             => (op' = "_do_save_config" /\ fx'.writes = 1)]_vars

\* C5 witness: save_config was called while a save was pending.
C5_Witness ==
    pending /\ save_timers = 1 /\ fx.save_calls > 0 /\ fx.scheduled = 0

\* C6: under fair firing of the save timer and no I/O error, every change
\* of max_brush_size leaves a save pending, every pending save is eventually
\* written, and the write that ends a pending period stores the current
\* max_brush_size; so once no save is pending the file holds the current
\* value, also when it changed again while a save was pending.
C6_NoChangeLost ==
    /\ [][max_brush_size' # max_brush_size => pending']_vars
    /\ [][(pending /\ ~pending')
             => config_file' = JsonFile(max_brush_size')]_vars
    /\ [][(~pending /\ ~pending')
             => (config_file' = config_file
                 /\ max_brush_size' = max_brush_size)]_vars
    /\ (pending ~> (~pending /\ config_file = JsonFile(max_brush_size)))

\* C6 witness: max_brush_size changed again while a save was pending.
C6_Witness ==
    /\ pending
    /\ fx.save_calls > 0
    /\ fx.scheduled = 0
    /\ config_file # JsonFile(max_brush_size)

C2_HardnessRoundTrips ==
    [][(/\ op = "on_hardness_slider_changed"
        /\ fx.fromXML = 1
        /\ has_view'
        /\ fx'.update_runs > 0)
           => hardness_slider'.value = hardness_slider.value]_vars

\* What the hardness claims call a brush_definition param that is a
\* non-empty auto_brush with a MaskGenerator node.
HasMaskGenerator(text) ==
    \E i \in 1..Len(text.elems) : EndsWithMaskGenerator(text.elems[i].tag)

IsAutoBrushParam(param) ==
    /\ param.name = "brush_definition"
    /\ param.text.kind = "xml"
    /\ param.text.type = "auto_brush"
    /\ HasMaskGenerator(param.text)

IsUnparsableParam(param) ==
    /\ param.name = "brush_definition"
    /\ param.text.kind = "malformed"

\* The first such param of a preset, 0 when it has none.
FirstAutoBrushParam(pre) ==
    FirstIndex({i \in 1..Len(pre.params) : IsAutoBrushParam(pre.params[i])})

\* The hardness attribute read from such a param: hfade, else vfade.
FadeOf(param) ==
    LET el == param.text.elems[_find_mask_generator(param.text)]
    IN  IF el.hfade # Absent THEN el.hfade ELSE el.vfade

IsReadableParam(param) == IsAutoBrushParam(param) /\ FadeOf(param).kind = "num"

\* Writing gives up: no view, no preset, no such param, or a brush
\* definition that does not parse comes first.
GivesUpWriting(view, pre) ==
    \/ ~view
    \/ ~pre.exists
    \/ FirstAutoBrushParam(pre) = 0
    \/ \E i \in 1..(FirstAutoBrushParam(pre) - 1) : IsUnparsableParam(pre.params[i])

\* Reading gives up: no view, no preset, no such param with an hfade or
\* vfade, or a brush definition or an attribute that does not parse comes
\* before one.
GivesUpReading(view, pre) ==
    \/ ~view
    \/ ~pre.exists
    \/ \A i \in 1..Len(pre.params) : ~IsReadableParam(pre.params[i])
    \/ \E i \in 1..Len(pre.params) :
          /\ \/ IsUnparsableParam(pre.params[i])
             \/ IsAutoBrushParam(pre.params[i]) /\ FadeOf(pre.params[i]) = Garbage
          /\ \A j \in 1..(i - 1) : ~IsReadableParam(pre.params[j])

\* The user moved the hardness slider with a view: _set_brush_hardness ran.
SetHardnessRan == op' = "on_hardness_slider_changed" /\ has_view

\* The step rewrote exactly the mask generator of param i: hfade and vfade
\* both hold the text of value, and nothing else changed in the preset.
RewroteOnly(i, value) ==
    LET mg   == _find_mask_generator(preset.params[i].text)
        el   == preset.params[i].text.elems[mg]
        el2  == preset'.params[i].text.elems[mg]
    IN  /\ preset'.exists
        /\ Len(preset'.params) = Len(preset.params)
        /\ \A j \in 1..Len(preset.params) : j # i => preset'.params[j] = preset.params[j]
        /\ preset'.params[i].name = preset.params[i].name
        /\ preset'.params[i].text.kind = "xml"
        /\ preset'.params[i].text.type = preset.params[i].text.type
        /\ Len(preset'.params[i].text.elems) = Len(preset.params[i].text.elems)
        /\ \A k \in 1..Len(preset.params[i].text.elems) :
               k # mg => preset'.params[i].text.elems[k] = preset.params[i].text.elems[k]
        /\ el2.tag = el.tag /\ el2.depth = el.depth
        /\ el2.hfade = el2.vfade
        /\ el2.hfade.kind = "num"
        /\ FloatOf(el2.hfade) = Clamp01(value)

\* C3 as stated: _set_brush_hardness(value) on a preset with at least one
\* brush_definition param that is a non-empty auto_brush with a
\* MaskGenerator rewrites only the first such param (hfade = vfade = value
\* clamped to [0, 1]), and applies fromXML exactly once.
C3_RewritesFirstAutoBrush ==
    [][(SetHardnessRan /\ preset.exists /\ FirstAutoBrushParam(preset) # 0)
           => /\ RewroteOnly(FirstAutoBrushParam(preset),
                             DivInt(hardness_slider'.value, MaxHardness))
              /\ fx'.fromXML = 1]_vars

\* C3 amended: ... provided every brush_definition param before the first
\* such param is empty or parses as XML.
C3_RewritesFirstAutoBrushIfParsable ==
    [][(SetHardnessRan /\ ~GivesUpWriting(has_view, preset))
           => /\ RewroteOnly(FirstAutoBrushParam(preset),
                             DivInt(hardness_slider'.value, MaxHardness))
              /\ fx'.fromXML = 1]_vars

\* C3 witness: the second of two auto brushes was left alone while the
\* first was rewritten to the slider's 29 %.
C3_Witness ==
    /\ op = "on_hardness_slider_changed"
    /\ fx.fromXML = 1
    /\ hardness_slider.value = 29
    /\ Len(preset.params) = 3
    /\ preset.params[1].text.elems[2].hfade = Num(29, 2)
    /\ preset.params[3] = TwoBrushPreset.params[3]

\* C4: when there is no active view, or the preset has no brush_definition
\* param that is a non-empty auto_brush with a MaskGenerator (and, for
\* reading, an hfade or vfade), or parsing fails, _get_brush_hardness
\* returns None, _set_brush_hardness leaves the preset unchanged without
\* calling fromXML, no error escapes, and update_from_current_brush leaves
\* the hardness slider and last_hardness unchanged.
C4_GivesUpSilently ==
    /\ [][GivesUpReading(has_view, preset)
              => _get_brush_hardness(has_view, preset) = ReturnNone]_vars
    /\ [][(op' = "on_hardness_slider_changed" /\ GivesUpWriting(has_view, preset))
              => /\ preset' = preset
                 /\ fx'.fromXML = 0
                 /\ ~uncaught']_vars
    /\ [][(fx'.update_runs > 0 /\ GivesUpReading(has_view, preset))
              => /\ hardness_slider' = hardness_slider
                 /\ last_hardness' = last_hardness
                 /\ preset' = preset
                 /\ ~uncaught']_vars

\* C4 witness: the user moved the hardness slider while a brush definition
\* that does not parse came first; and the view is there.
C4_Witness ==
    /\ op = "on_hardness_slider_changed"
    /\ has_view
    /\ preset = MalformedFirstPreset
    /\ hardness_slider.value = 29
    /\ fx.fromXML = 0

\* C8: update_from_current_brush and _update_size_from_action never call
\* view.setBrushSize nor preset.fromXML: the host's brush size and preset
\* are unchanged by them.
C8_NoEchoToHost ==
    [][(fx'.update_runs > 0 \/ fx'.size_from_action > 0)
           => /\ fx'.setBrushSize = 0
              /\ fx'.fromXML = 0
              /\ brush_size' = brush_size
              /\ preset' = preset]_vars

\* C8 witness: an update expanded the maximum and moved both sliders, the
\* size slider to the clamped brush size.
C8_Witness ==
    /\ fx.update_runs > 0
    /\ op # "__init__"
    /\ has_view
    /\ brush_size = 12000
    /\ size_slider.value = CeilingMax
    /\ fx.save_calls = 1
    /\ last_hardness = 50
    /\ hardness_slider.value = 50
    /\ preset = PlainPreset

=============================================================================
